---- MODULE Spec2Model ----
(***************************************************************************)
(* State-machine model of the client-side assessment controllers of the    *)
(* research-assessment web application:                                    *)
(*   - the genealogy controller (GenealogyTab + SupervisionQuestionnaire), *)
(*   - the biography rating flow (ModelComparison + AIComparisonTab).      *)
(* JavaScript is single threaded: every event handler, every continuation  *)
(* after an await and every timer callback runs to completion, so each is  *)
(* one atomic action.  Indices are 0-based as in the code; TLA+ sequences  *)
(* are 1-based, so people[i + 1] is the code's people[i].                  *)
(***************************************************************************)
EXTENDS Integers, Sequences, FiniteSets, TLC

\* ------------------------------------------------------------------ bounds
MaxPeople == 2          \* longest scientist list the backend may return
MaxPending == 2         \* timers pending plus saveAllAssessments calls running

\* Fresh ids / timestamps handed out: enough to save every scientist once.
MaxSaves == MaxPeople


\* Text the rater may have typed into the questionnaire when saving.
FormValues == {"a"}

\* What the backend / the transport can answer to one POST:
\*   "ok"            HTTP 2xx, body {success: true}
\*   "rejected"      HTTP 2xx, body {success: false, ...}
\*   "http_error"    HTTP status outside 2xx
\*   "network_error" fetch rejects
Outcomes == {"ok", "rejected", "http_error", "network_error"}

MaxRatings == 1         \* ModelRating records the rater may submit

\* Scientists returned by /api/scientists.
Scientists == {"A", "B"}

\* Model names returned by /api/models, as sequences of characters.
Models == {<<"G", "4">>, <<"Q", "-", "1">>}

\* The clicks on the RatingScale buttons that are explored: every category
\* can be rated 5, affiliation can also be rated 1.
RatingClicks ==
    {[category |-> c, score |-> 5] :
        c \in {"affiliation", "research", "gender", "supervision"}}
    \cup {[category |-> "affiliation", score |-> 1]}

VARIABLES
    \* ---- GenealogyTab state (useState hooks)
    people,                 \* Person[]: here the sequence of person names
    peopleLoaded,           \* loadPeopleFromAPI has completed
    assessmentStarted,
    currentScientistIndex,
    assessmentData,         \* Record<number, AssessmentData>: entries in insertion order
    isSavingAll,
    saveAllStatus,
    \* ---- asynchronous activity of the genealogy controller
    saveRuns,               \* saveAllAssessments calls that have not returned yet
    pendingAdvance,         \* 800 ms timers of handleSubmitAnswers: captured index (FIFO)
    pendingReset,           \* pending 3000 ms success timers
    pendingIdle,            \* pending 5000 ms error timers
    clock                   \* number of ids / timestamps handed out so far

\* Timers that are pending, counting a running saveAllAssessments call (which
\* sets one timer when it returns).
Pending == Len(pendingAdvance) + pendingReset + pendingIdle + Len(saveRuns)

VARIABLES
    \* ---- ModelComparison state (useState hooks)
    variant,                \* "three": the three-category version, "four": the four-category one
    backend,                \* what /api/scientists and /api/models return
    biographyType,          \* three-category version only: 'minimal' | 'comprehensive'
    notes,                  \* Record<string, string>: modelKey -> text
    scientists,             \* Scientist[]: here the set of scientist names
    availableModels,        \* string[]: here the set of model names
    selectedScientist,      \* a scientist name, or "null"
    biographyData,          \* the scientist whose ModelBiographyMap is loaded, or "null"
    selectedModel,          \* three-category version only: a model name, or <<>> for ''
    ratings,                \* Record<string, RatingCategory[]>: modelKey -> list
    \* ---- asynchronous activity of the biography flow
    biographyFetches,       \* scientists whose biography fetch is in flight
    ratingPosts,            \* POST /api/ratings requests in flight
    storedRatings,          \* ids of the ModelRatings the backend has stored
    \* ---- AIComparisonTab state
    tabRatings,             \* ModelRating[] (the ratings hook of AIComparisonTab)
    ratingClock,            \* ModelRating ids / timestamps handed out so far
    \* ---- history
    lastRatingChange,       \* arguments of the latest handleRatingChange call whose
                            \* list has not been reset since: <<>> or <<call>>
    enteredFor              \* modelKey -> the scientists that were selected when the
                            \* entries of its list (since its last reset) were entered

VARIABLES
    \* ---- observation of getAnonymizedModelName
    anonNames,              \* the two model names under observation
    anonCalls               \* per name: the calls made so far, [label, loaded]

VARIABLES
    \* ---- GenealogyTab state and its backend, continued
    relationships,          \* SupervisionRelationship[] (the relationships hook)
    storedAssessments,      \* what POST /api/genealogy/assessments has appended
    \* ---- the application around the two tabs
    activeTab,              \* 'genealogy' | 'ai-comparison', "unloaded" before App renders
    localStorage,           \* key -> <<stored value>>, or <<>> (getItem returns null)
    orphanedRequests,       \* requests in flight whose component has been unmounted
    \* ---- observation of RatingsSummary
    rendered                \* the renders made so far: [ratings, view]

anonVars == <<anonNames, anonCalls>>

appVars == <<activeTab, localStorage, orphanedRequests, rendered>>

bioVars == <<variant, backend, biographyType, notes, scientists, availableModels,
             selectedScientist, biographyData, selectedModel, ratings,
             biographyFetches, ratingPosts, tabRatings, ratingClock,
             lastRatingChange, enteredFor, storedRatings>>

genVars == <<relationships, storedAssessments, people, peopleLoaded, assessmentStarted, currentScientistIndex,
             assessmentData, isSavingAll, saveAllStatus, saveRuns,
             pendingAdvance, pendingReset, pendingIdle, clock>>

vars == <<genVars, bioVars, anonVars, appVars>>

\* ------------------------------------------------- JavaScript object helpers
\* A JS object with integer keys is a sequence of [key, value] entries.

ObjectKeySet(obj) == {obj[i].key : i \in 1..Len(obj)}

HasKey(obj, k) == k \in ObjectKeySet(obj)

Get(obj, k) == LET i == CHOOSE j \in 1..Len(obj) : obj[j].key = k IN obj[i].value

\* {...prev, [k]: v}
Put(obj, k, v) ==
    IF HasKey(obj, k)
    THEN [i \in 1..Len(obj) |-> IF obj[i].key = k THEN [key |-> k, value |-> v] ELSE obj[i]]
    ELSE Append(obj, [key |-> k, value |-> v])

RECURSIVE Ascending(_)
Ascending(S) ==
    IF S = {} THEN <<>>
    ELSE LET m == CHOOSE x \in S : \A y \in S : x <= y
         IN <<m>> \o Ascending(S \ {m})

\* The values in the order in which the entries were first inserted.
InsertionValues(obj) == [i \in 1..Len(obj) |-> obj[i].value]

\* Object.values(obj): integer-like keys are enumerated in ascending numeric
\* order, whatever the order of insertion.
ObjectValues(obj) ==
    LET ks == Ascending(ObjectKeySet(obj))
    IN [i \in 1..Len(ks) |-> Get(obj, ks[i])]

\* A JS object with string keys is a function from the keys it holds.
EmptyObject == [k \in {} |-> <<>>]

\* {...prev, [k]: v}
Spread(obj, k, v) == [x \in DOMAIN obj \cup {k} |-> IF x = k THEN v ELSE obj[x]]

\* ------------------------------------------------ GenealogyTab: derived values
isLastScientist == currentScientistIndex = Len(people) - 1

isFirstScientist == currentScientistIndex = 0

completedAssessments == Len(assessmentData)

\* currentScientist = people[currentScientistIndex] is undefined outside the list.
currentScientistDefined == currentScientistIndex + 1 \in 1..Len(people)

\* {assessmentStarted && currentScientist && <SupervisionQuestionnaire .../>}
QuestionnaireShown == assessmentStarted /\ currentScientistDefined

\* existingData={assessmentData[currentScientistIndex]}: undefined when the
\* current scientist has no saved assessment yet.
existingDataDefined == HasKey(assessmentData, currentScientistIndex)

existingData == Get(assessmentData, currentScientistIndex)

\* ------------------------------------------------------------ Init
\* The state of a freshly mounted GenealogyTab.
GenMounted ==
    /\ people = <<>>
    /\ peopleLoaded = FALSE
    /\ assessmentStarted = FALSE
    /\ currentScientistIndex = 0
    /\ assessmentData = <<>>
    /\ isSavingAll = FALSE
    /\ saveAllStatus = "idle"
    /\ saveRuns = <<>>
    /\ pendingAdvance = <<>>
    /\ pendingReset = 0
    /\ pendingIdle = 0
    /\ clock = 0
    /\ relationships = <<>>
    /\ storedAssessments = {}

\* The state of a freshly mounted AIComparisonTab with its ModelComparison.
BioMounted ==
    /\ scientists = {}
    /\ availableModels = {}
    /\ selectedScientist = "null"
    /\ biographyData = "null"
    /\ selectedModel = <<>>
    /\ ratings = EmptyObject
    /\ biographyFetches = {}
    /\ ratingPosts = {}
    /\ tabRatings = <<>>
    /\ ratingClock = 0
    /\ lastRatingChange = <<>>
    /\ biographyType = "minimal"
    /\ notes = EmptyObject
    /\ enteredFor = EmptyObject
    /\ storedRatings = {}

\* The keys of the local store.
StoreKeys == {"genealogy-people", "genealogy-relationships", "ai-model-ratings"}

\* No request of an unmounted component is in flight: no POST /api/ratings
\* and no GET /api/people.
NoRequests == [ratingPosts |-> {}, peopleFetch |-> FALSE]

\* The application with the given tab on screen and the given local store;
\* nothing has been sent to the backend or rendered by RatingsSummary yet.
AppStarted(tab, store) ==
    /\ activeTab = tab
    /\ localStorage = store
    /\ orphanedRequests = NoRequests
    /\ rendered = {}

\* The local store with GenealogyTab mounted: the people list of an earlier
\* session is cached, the relationships effect has written [].
GenStore ==
    [k \in StoreKeys |->
        IF k = "genealogy-people" THEN <<[i \in 1..MaxPeople |-> i]>>
        ELSE IF k = "genealogy-relationships" THEN << <<>> >>
        ELSE <<>>]

\* The local store with AIComparisonTab mounted: its ratings effect has
\* written [], as the relationships effect of GenealogyTab did before.
BioStore ==
    [k \in StoreKeys |-> IF k = "genealogy-people" THEN <<>> ELSE << <<>> >>]

\* getAnonymizedModelName is not under observation.
Unobserved == anonNames = <<>> /\ anonCalls = <<>>

\* What the backend serves: the scientists and the model names.
Serves(scientistNames, modelNames) ==
    backend = [scientists |-> scientistNames, models |-> modelNames]

GenInit ==
    /\ GenMounted /\ BioMounted /\ Unobserved /\ variant = "three" /\ Serves(Scientists, Models)
    /\ AppStarted("genealogy", GenStore)

\* Either version of ModelComparison may be the one that is built: the
\* three-category version is explored with both models, the four-category
\* version with the first one.
BioInit ==
    /\ GenMounted
    /\ BioMounted
    /\ Unobserved
    /\ \/ variant = "three" /\ Serves({"A"}, Models)
       \/ variant = "four" /\ Serves({"A"}, {<<"G", "4">>})
    /\ AppStarted("ai-comparison", BioStore)

\* ------------------------------------------------------------ loading
\* The three people of the "ultimate fallback".
testPeople == <<1, 2, 3>>

\* loadPeopleFromAPI once its fetch has settled.  Either the backend list
\* (an empty list is stored as it is), which is also cached, or the
\* fallback: the cached people, else the test people, and the cached
\* relationships; setRelationships re-runs the persistence effect, which
\* writes the same list again.
LoadPeople ==
    /\ activeTab = "genealogy"
    /\ ~peopleLoaded
    /\ \/ \E n \in 0..MaxPeople :
             /\ people' = [i \in 1..n |-> i]
             /\ localStorage' = [localStorage EXCEPT
                                    !["genealogy-people"] = <<[i \in 1..n |-> i]>>]
             /\ UNCHANGED relationships
       \/ LET savedPeople == localStorage["genealogy-people"]
              savedRelationships == localStorage["genealogy-relationships"]
          IN /\ people' = IF savedPeople # <<>> THEN savedPeople[1] ELSE testPeople
             /\ relationships' = IF savedRelationships # <<>>
                                  THEN savedRelationships[1]
                                  ELSE relationships
             /\ UNCHANGED localStorage
    /\ peopleLoaded' = TRUE
    /\ UNCHANGED <<storedAssessments, assessmentStarted, currentScientistIndex,
                   assessmentData, isSavingAll, saveAllStatus, saveRuns,
                   pendingAdvance, pendingReset, pendingIdle, clock>>

\* ------------------------------------------------------------ start / exit
\* The Start Assessment button is rendered in the not-started branch only,
\* and only when people.length > 0.
StartButtonRendered == ~assessmentStarted /\ Len(people) > 0

\* A start that keeps the index of the previous session.
startAssessment_KeepingIndex ==
    /\ assessmentStarted' = TRUE
    /\ UNCHANGED <<relationships, storedAssessments, people, peopleLoaded, currentScientistIndex, assessmentData, isSavingAll,
                   saveAllStatus, saveRuns, pendingAdvance, pendingReset, pendingIdle,
                   clock>>

startAssessment ==
    /\ assessmentStarted' = TRUE
    /\ currentScientistIndex' = 0
    /\ UNCHANGED <<relationships, storedAssessments, people, peopleLoaded, assessmentData, isSavingAll, saveAllStatus,
                   saveRuns, pendingAdvance, pendingReset, pendingIdle, clock>>

StartClick == StartButtonRendered /\ startAssessment

\* onClearSelection={() => setAssessmentStarted(false)}, the Exit Assessment
\* button of the questionnaire.
ExitAssessment ==
    /\ QuestionnaireShown
    /\ assessmentStarted' = FALSE
    /\ UNCHANGED <<relationships, storedAssessments, people, peopleLoaded, currentScientistIndex, assessmentData, isSavingAll,
                   saveAllStatus, saveRuns, pendingAdvance, pendingReset,
                   pendingIdle, clock>>

\* ------------------------------------------------------------ navigation
\* goToNextScientist as a closure: the guard reads the currentScientistIndex
\* of the render that created the closure (captured), the update is the
\* functional prev => prev + 1 on the state at the time of the call.
goToNextScientist(captured) ==
    currentScientistIndex' =
        IF captured < Len(people) - 1
        THEN currentScientistIndex + 1
        ELSE currentScientistIndex

goToPreviousScientist(captured) ==
    currentScientistIndex' =
        IF captured > 0
        THEN currentScientistIndex - 1
        ELSE currentScientistIndex

\* The Next button replaces Save All whenever !isLastScientist.
NextClick ==
    /\ assessmentStarted
    /\ ~isLastScientist
    /\ goToNextScientist(currentScientistIndex)
    /\ UNCHANGED <<relationships, storedAssessments, people, peopleLoaded, assessmentStarted, assessmentData, isSavingAll,
                   saveAllStatus, saveRuns, pendingAdvance, pendingReset,
                   pendingIdle, clock>>

\* The Previous button is disabled when isFirstScientist.
PreviousClick ==
    /\ assessmentStarted
    /\ ~isFirstScientist
    /\ goToPreviousScientist(currentScientistIndex)
    /\ UNCHANGED <<relationships, storedAssessments, people, peopleLoaded, assessmentStarted, assessmentData, isSavingAll,
                   saveAllStatus, saveRuns, pendingAdvance, pendingReset,
                   pendingIdle, clock>>

\* ------------------------------------------------------------ saving one assessment
\* A record that would get a fresh id and timestamp on every save.
NewAssessment_AlwaysFresh(v) ==
    [id             |-> clock + 1,
     person_name    |-> people[currentScientistIndex + 1],
     supervisors    |-> v,
     timestamp      |-> clock + 1]

\* The AssessmentData built by handleSubmitAnswers from the form value v:
\* id and timestamp of an existing record are kept, otherwise they are fresh.
NewAssessment(v) ==
    [id             |-> IF ~existingDataDefined THEN clock + 1 ELSE existingData.id,
     person_name    |-> people[currentScientistIndex + 1],
     supervisors    |-> v,
     timestamp      |-> IF ~existingDataDefined THEN clock + 1 ELSE existingData.timestamp]

\* setAssessmentData(prev => ({...prev, [currentScientistIndex]: data}))
saveCurrentAssessment(data) ==
    assessmentData' = Put(assessmentData, currentScientistIndex, data)

\* handleSubmitAnswers: save into the parent, then (unless this is the last
\* scientist) schedule onNext() 800 ms later; onNext is the goToNextScientist
\* of the current render.
handleSubmitAnswers(v) ==
    /\ saveCurrentAssessment(NewAssessment(v))
    /\ clock' = IF ~existingDataDefined THEN clock + 1 ELSE clock
    /\ pendingAdvance' =
           IF ~isLastScientist
           THEN Append(pendingAdvance, currentScientistIndex)
           ELSE pendingAdvance
    /\ UNCHANGED <<relationships, storedAssessments, people, peopleLoaded, assessmentStarted, currentScientistIndex,
                   isSavingAll, saveAllStatus, saveRuns, pendingReset, pendingIdle>>

SubmitAnswers ==
    /\ QuestionnaireShown
    /\ ~existingDataDefined => clock < MaxSaves
    /\ ~isLastScientist => Pending < MaxPending
    /\ \E v \in FormValues : handleSubmitAnswers(v)

\* The 800 ms timer fires (timers of equal delay fire in the order they were set).
AutoAdvance ==
    /\ pendingAdvance # <<>>
    /\ goToNextScientist(Head(pendingAdvance))
    /\ pendingAdvance' = Tail(pendingAdvance)
    /\ UNCHANGED <<relationships, storedAssessments, people, peopleLoaded, assessmentStarted, assessmentData, isSavingAll,
                   saveAllStatus, saveRuns, pendingReset, pendingIdle, clock>>

\* ------------------------------------------------------------ saving all assessments
\* response.ok
ResponseOk(outcome) == outcome \in {"ok", "rejected"}

\* A fetch that would also reject on an HTTP error status.
FetchThrows_AlsoOnHttpError(outcome) == outcome \in {"network_error", "http_error"}

\* await fetch(...) throws, which leaves the for loop for the catch block.
FetchThrows(outcome) == outcome = "network_error"

\* The backend appends the record to its store exactly when it answers
\* {success: true}.
BackendStores(outcome) == outcome = "ok"

\* The backend appends every submission it accepts (no update, no delete):
\* the store holds the first copy of a record and, once the record has been
\* accepted again, a second one; further copies are not told apart.
BackendAppends(store, id) ==
    store \cup {[id |-> id, copy |-> IF \E rec \in store : rec.id = id THEN 2 ELSE 1]}

\* A Save All button that would stay enabled while a run is in progress.
SaveAllButtonEnabled_IgnoringIsSavingAll ==
    /\ assessmentStarted
    /\ isLastScientist
    /\ completedAssessments # 0

\* The Save All Assessments button takes the place of Next on the last
\* scientist; disabled={isSavingAll || completedAssessments === 0}.
SaveAllButtonEnabled ==
    /\ assessmentStarted
    /\ isLastScientist
    /\ ~(isSavingAll \/ completedAssessments = 0)

\* The next iteration of the for loop: POST the next record and await; the
\* request is in flight until the backend (or the transport) has answered it.
PostNext(run) == [run EXCEPT !.posted = @ + 1, !.reply = "pending"]

\* A run end whose error branches set no 5000 ms timer.
FinishRun_NoIdleTimer(run, threw) ==
    LET allOk == ~threw /\ run.successCount = Len(run.assessmentsToSave)
    IN /\ saveAllStatus' = IF allOk THEN "success" ELSE "error"
       /\ pendingReset' = IF allOk THEN pendingReset + 1 ELSE pendingReset
       /\ pendingIdle' = pendingIdle
       /\ isSavingAll' = FALSE

\* The code after the for loop, the catch block and the finally block.
FinishRun(run, threw) ==
    LET allOk == ~threw /\ run.successCount = Len(run.assessmentsToSave)
    IN /\ saveAllStatus' = IF allOk THEN "success" ELSE "error"
       /\ pendingReset' = IF allOk THEN pendingReset + 1 ELSE pendingReset
       /\ pendingIdle' = IF allOk THEN pendingIdle ELSE pendingIdle + 1
       /\ isSavingAll' = FALSE

\* saveAllAssessments up to its first await.  A run records its snapshot
\* assessmentsToSave, the number of records POSTed so far (the loop position),
\* successCount, the answer to the POST it awaits, and how many of its
\* records the backend has stored.
saveAllAssessments ==
    LET run == [assessmentsToSave |-> ObjectValues(assessmentData),
                posted |-> 0, successCount |-> 0, reply |-> "none", stored |-> 0]
    IN IF run.assessmentsToSave # <<>>
       THEN /\ isSavingAll' = TRUE
            /\ saveAllStatus' = "saving"
            /\ saveRuns' = Append(saveRuns, PostNext(run))
            /\ UNCHANGED <<pendingReset, pendingIdle>>
       ELSE /\ FinishRun(run, FALSE)
            /\ UNCHANGED saveRuns

SaveAllClick ==
    /\ SaveAllButtonEnabled
    /\ Pending < MaxPending
    /\ saveAllAssessments
    /\ UNCHANGED <<relationships, storedAssessments, people, peopleLoaded, assessmentStarted, currentScientistIndex,
                   assessmentData, pendingAdvance, clock>>

\* POST /api/genealogy/assessments is answered: the backend handles the
\* request in flight of run r (or the transport fails).
BackendAnswers ==
    /\ \E r \in 1..Len(saveRuns) : \E outcome \in Outcomes :
          /\ saveRuns[r].reply = "pending"
          /\ saveRuns' = [saveRuns EXCEPT
                             ![r].reply = outcome,
                             ![r].stored = IF BackendStores(outcome) THEN @ + 1 ELSE @]
          /\ storedAssessments' =
                 IF BackendStores(outcome)
                 THEN BackendAppends(storedAssessments,
                                     saveRuns[r].assessmentsToSave[saveRuns[r].posted].id)
                 ELSE storedAssessments
    /\ UNCHANGED <<relationships, people, peopleLoaded, assessmentStarted,
                   currentScientistIndex, assessmentData, isSavingAll, saveAllStatus,
                   pendingAdvance, pendingReset, pendingIdle, clock>>

RemoveAt(seq, i) == SubSeq(seq, 1, i - 1) \o SubSeq(seq, i + 1, Len(seq))

\* The continuation of run r once the awaited fetch has settled.
Resume(r) ==
    LET run == saveRuns[r]
        threw == FetchThrows(run.reply)
        counted == [run EXCEPT !.successCount =
                                   IF ~threw /\ ResponseOk(run.reply) THEN @ + 1 ELSE @]
    IN IF ~threw /\ run.posted < Len(run.assessmentsToSave)
       THEN /\ saveRuns' = [saveRuns EXCEPT ![r] = PostNext(counted)]
            /\ UNCHANGED <<isSavingAll, saveAllStatus, pendingReset, pendingIdle>>
       ELSE /\ saveRuns' = RemoveAt(saveRuns, r)
            /\ FinishRun(counted, threw)

Respond ==
    /\ \E r \in 1..Len(saveRuns) : saveRuns[r].reply # "pending" /\ Resume(r)
    /\ UNCHANGED <<relationships, storedAssessments, people, peopleLoaded, assessmentStarted, currentScientistIndex,
                   assessmentData, pendingAdvance, clock>>

\* setTimeout(..., 3000) of the success branch.
ResetTimerFires ==
    /\ pendingReset > 0
    /\ pendingReset' = pendingReset - 1
    /\ assessmentStarted' = FALSE
    /\ currentScientistIndex' = 0
    /\ assessmentData' = <<>>
    /\ saveAllStatus' = "idle"
    /\ UNCHANGED <<relationships, storedAssessments, people, peopleLoaded, isSavingAll, saveRuns, pendingAdvance,
                   pendingIdle, clock>>

\* setTimeout(() => setSaveAllStatus('idle'), 5000) of the error branches.
IdleTimerFires ==
    /\ pendingIdle > 0
    /\ pendingIdle' = pendingIdle - 1
    /\ saveAllStatus' = "idle"
    /\ UNCHANGED <<relationships, storedAssessments, people, peopleLoaded, assessmentStarted, currentScientistIndex,
                   assessmentData, isSavingAll, saveRuns, pendingAdvance,
                   pendingReset, clock>>

\* ------------------------------------------------------------ specification
GenNext ==
    \/ LoadPeople /\ UNCHANGED <<bioVars, anonVars, activeTab, orphanedRequests, rendered>>
    \/ StartClick /\ UNCHANGED <<bioVars, anonVars, appVars>>
    \/ ExitAssessment /\ UNCHANGED <<bioVars, anonVars, appVars>>
    \/ NextClick /\ UNCHANGED <<bioVars, anonVars, appVars>>
    \/ PreviousClick /\ UNCHANGED <<bioVars, anonVars, appVars>>
    \/ SubmitAnswers /\ UNCHANGED <<bioVars, anonVars, appVars>>
    \/ AutoAdvance /\ UNCHANGED <<bioVars, anonVars, appVars>>
    \/ SaveAllClick /\ UNCHANGED <<bioVars, anonVars, appVars>>
    \/ BackendAnswers /\ UNCHANGED <<bioVars, anonVars, appVars>>
    \/ Respond /\ UNCHANGED <<bioVars, anonVars, appVars>>
    \/ ResetTimerFires /\ UNCHANGED <<bioVars, anonVars, appVars>>
    \/ IdleTimerFires /\ UNCHANGED <<bioVars, anonVars, appVars>>

GenSpec == GenInit /\ [][GenNext]_vars

\* Text the rater may change the form to when revisiting a saved scientist.
RevisedValues == {"b"}

\* The Save button on a scientist whose assessment is already stored, after
\* the rater has edited the form the existingData effect filled in.
ReviseAnswers ==
    /\ QuestionnaireShown
    /\ existingDataDefined
    /\ ~isLastScientist => Pending < MaxPending
    /\ \E v \in RevisedValues : handleSubmitAnswers(v)

\* GenNext together with the revision of saved assessments.
GenEditNext ==
    \/ GenNext
    \/ ReviseAnswers /\ UNCHANGED <<bioVars, anonVars, appVars>>

GenEditSpec == GenInit /\ [][GenEditNext]_vars

\* Every request eventually resolves or fails, and a timer that is due fires.
GenFairSpec ==
    /\ GenSpec
    /\ WF_vars(BackendAnswers /\ UNCHANGED <<bioVars, anonVars, appVars>>)
    /\ WF_vars(Respond /\ UNCHANGED <<bioVars, anonVars, appVars>>)
    /\ WF_vars(ResetTimerFires /\ UNCHANGED <<bioVars, anonVars, appVars>>)
    /\ WF_vars(IdleTimerFires /\ UNCHANGED <<bioVars, anonVars, appVars>>)

\* ================================================== biography rating flow
\* ratingCategories of the version that is built.
ratingCategories ==
    IF variant = "three"
    THEN <<"affiliation", "research", "gender">>
    ELSE <<"affiliation", "research", "gender", "supervision">>

\* A guard that would accept a list one entry short.
RequiredRatings_OneLess == IF variant = "three" THEN 2 ELSE 3

\* The literal the guard of saveRating and the disabled test of the Save
\* Rating button compare the length of the list with.
RequiredRatings == IF variant = "three" THEN 3 ELSE 4

UpperCaseLetters == <<"A", "B", "C", "D", "E", "F", "G", "H", "I", "J", "K", "L", "M", "N", "O", "P", "Q", "R", "S", "T", "U", "V", "W", "X", "Y", "Z">>

LowerCaseLetters == <<"a", "b", "c", "d", "e", "f", "g", "h", "i", "j", "k", "l", "m", "n", "o", "p", "q", "r", "s", "t", "u", "v", "w", "x", "y", "z">>

Digits == <<"0", "1", "2", "3", "4", "5", "6", "7", "8", "9">>

\* String.prototype.toLowerCase, character by character.
toLowerCase(c) ==
    IF \E i \in 1..Len(UpperCaseLetters) : UpperCaseLetters[i] = c
    THEN LowerCaseLetters[CHOOSE i \in 1..Len(UpperCaseLetters) : UpperCaseLetters[i] = c]
    ELSE c

\* String.prototype.toUpperCase, character by character.
toUpperCase(c) ==
    IF \E i \in 1..Len(LowerCaseLetters) : LowerCaseLetters[i] = c
    THEN UpperCaseLetters[CHOOSE i \in 1..Len(LowerCaseLetters) : LowerCaseLetters[i] = c]
    ELSE c

\* The characters of [a-z0-9].
AlphaNumeric ==
    {LowerCaseLetters[i] : i \in 1..Len(LowerCaseLetters)} \cup {Digits[i] : i \in 1..Len(Digits)}

\* modelKey = model.toLowerCase().replace(/[^a-z0-9]/g, '_')
ModelKey(model) ==
    [i \in 1..Len(model) |->
        IF toLowerCase(model[i]) \in AlphaNumeric THEN toLowerCase(model[i]) ELSE "_"]

\* ratings[modelKey] || []
RatingsOf(modelKey) == IF modelKey \in DOMAIN ratings THEN ratings[modelKey] ELSE <<>>

\* notes[modelKey] || '' ('' also stands for the undefined of notes[modelKey] || undefined)
NotesOf(modelKey) == IF modelKey \in DOMAIN notes THEN notes[modelKey] ELSE ""

\* The scientists under whose selection the list of modelKey was entered.
EnteredFor(modelKey) == IF modelKey \in DOMAIN enteredFor THEN enteredFor[modelKey] ELSE {}

\* list.filter(r => r.category !== category)
FilterCategory(list, category) == SelectSeq(list, LAMBDA r : r.category # category)

\* loadData: the scientists and the models arrive from the backend.
LoadData ==
    /\ scientists = {}
    /\ scientists' = backend.scientists
    /\ availableModels' = backend.models
    /\ UNCHANGED <<variant, backend, storedRatings, biographyType, notes, enteredFor, selectedScientist, biographyData, selectedModel, ratings,
                   biographyFetches, ratingPosts, tabRatings, ratingClock,
                   lastRatingChange>>

\* A scientist button is clicked: setSelectedScientist(scientist), and the
\* loadBiography effect of the new selection starts its fetch.
SelectScientist ==
    /\ \E scientist \in scientists :
          /\ scientist # selectedScientist
          /\ selectedScientist' = scientist
          /\ biographyFetches' = biographyFetches \cup {scientist}
    /\ UNCHANGED <<variant, backend, storedRatings, biographyType, notes, enteredFor, scientists, availableModels, biographyData, selectedModel,
                   ratings, ratingPosts, tabRatings, ratingClock, lastRatingChange>>

\* The biography fetch of a scientist settles: setBiographyData(data.biography)
\* when it succeeded, nothing otherwise.
BiographyArrives ==
    /\ \E scientist \in biographyFetches : \E outcome \in Outcomes :
          /\ biographyFetches' = biographyFetches \ {scientist}
          /\ biographyData' = IF outcome = "ok" THEN scientist ELSE biographyData
    /\ UNCHANGED <<variant, backend, storedRatings, biographyType, notes, enteredFor, scientists, availableModels, selectedScientist, selectedModel,
                   ratings, ratingPosts, tabRatings, ratingClock, lastRatingChange>>

\* The selected-scientist panel with its Change Selection button.
SelectionShown == selectedScientist # "null" /\ biographyData # "null"

\* Change Selection: setSelectedScientist(null); setBiographyData({}) (and
\* setSelectedModel('') in the three-category version); the loadBiography
\* effect of the null selection then sets biographyData to null.
ChangeSelection ==
    /\ SelectionShown
    /\ selectedScientist' = "null"
    /\ biographyData' = "null"
    /\ selectedModel' = <<>>
    /\ UNCHANGED <<variant, backend, storedRatings, biographyType, notes, enteredFor, scientists, availableModels, ratings, biographyFetches,
                   ratingPosts, tabRatings, ratingClock, lastRatingChange>>

\* The model dropdown of the three-category version.
SelectModel ==
    /\ variant = "three"
    /\ SelectionShown
    /\ \E model \in availableModels \cup {<<>>} :
          /\ model # selectedModel
          /\ selectedModel' = model
    /\ UNCHANGED <<variant, backend, storedRatings, biographyType, notes, enteredFor, scientists, availableModels, selectedScientist, biographyData,
                   ratings, biographyFetches, ratingPosts, tabRatings, ratingClock,
                   lastRatingChange>>

\* The rating section of a model is on screen: for the selected model in the
\* three-category version, for every available model in the four-category
\* one (every biography map holds an entry for every available model).
RatingSectionShown(model) ==
    /\ SelectionShown
    /\ model \in availableModels
    /\ variant = "three" => selectedModel = model

\* A handler that would not filter out the earlier entry of the category.
handleRatingChange_NoFilter(modelKey, category, score) ==
    ratings' = Spread(ratings, modelKey,
                      Append(RatingsOf(modelKey),
                             [category |-> category, score |-> score]))

handleRatingChange(modelKey, category, score) ==
    ratings' = Spread(ratings, modelKey,
                      Append(FilterCategory(RatingsOf(modelKey), category),
                             [category |-> category, score |-> score]))

\* A RatingScale button of a model on screen is clicked.
RatingChange ==
    /\ \E model \in availableModels : \E click \in RatingClicks :
          /\ RatingSectionShown(model)
          /\ \E i \in 1..Len(ratingCategories) : ratingCategories[i] = click.category
          /\ handleRatingChange(ModelKey(model), click.category, click.score)
          /\ lastRatingChange' = <<[modelKey |-> ModelKey(model),
                                   category |-> click.category,
                                   score |-> click.score]>>
          /\ enteredFor' = Spread(enteredFor, ModelKey(model),
                                  EnteredFor(ModelKey(model)) \cup {selectedScientist})
    /\ UNCHANGED <<variant, backend, storedRatings, biographyType, notes, scientists, availableModels, selectedScientist, biographyData,
                   selectedModel, biographyFetches, ratingPosts, tabRatings, ratingClock>>

\* disabled={(ratings[modelKey]?.length || 0) !== 3} (4 in the other version)
SaveRatingButtonEnabled(modelKey) == Len(RatingsOf(modelKey)) = RequiredRatings

\* The ModelRating saveRating builds.
NewRating(modelKey, modelRatings) ==
    [id |-> ratingClock + 1, model |-> modelKey, technique |-> "zero-shot",
     ratings |-> modelRatings, timestamp |-> ratingClock + 1,
     notes |-> NotesOf(modelKey)]

\* saveRating up to its await: the guard, the ModelRating and the POST of
\* {...rating, scientist_name}.
saveRating(modelKey) ==
    LET modelRatings == RatingsOf(modelKey)
    IN IF /\ Len(modelRatings) = RequiredRatings
          /\ selectedScientist # "null"
          /\ biographyData # "null"
       THEN /\ ratingPosts' = ratingPosts \cup
                   {[rating |-> NewRating(modelKey, modelRatings),
                     scientist_name |-> selectedScientist]}
            /\ ratingClock' = ratingClock + 1
       ELSE UNCHANGED <<ratingPosts, ratingClock>>

\* The Save Rating button of a model on screen is clicked; limit bounds the
\* ModelRatings built.
SaveRatingClicked(limit) ==
    /\ ratingClock < limit
    /\ \E model \in availableModels :
          /\ RatingSectionShown(model)
          /\ SaveRatingButtonEnabled(ModelKey(model))
          /\ saveRating(ModelKey(model))
    /\ UNCHANGED <<variant, backend, storedRatings, biographyType, notes, enteredFor, scientists, availableModels, selectedScientist, biographyData,
                   selectedModel, ratings, biographyFetches, tabRatings,
                   lastRatingChange>>

SaveRatingClick == SaveRatingClicked(MaxRatings)

\* A test that would not read result.success.
RatingAcknowledged_IgnoringBody(outcome) == ResponseOk(outcome)

\* response.ok && result.success
RatingAcknowledged(outcome) == ResponseOk(outcome) /\ outcome # "rejected"

\* handleAddRating: setRatings(prev => [...prev, rating]) in AIComparisonTab.
\* The effect on [ratings] then writes the new list to the local store.
handleAddRating(rating) ==
    /\ tabRatings' = Append(tabRatings, rating)
    /\ localStorage' = [localStorage EXCEPT
                           !["ai-model-ratings"] = <<Append(tabRatings, rating)>>]

\* The continuation of saveRating once its POST has settled: on an
\* acknowledged save onAddRating(rating) and the reset of the model's list.
RatingReply ==
    /\ \E post \in ratingPosts : \E outcome \in Outcomes :
          /\ ratingPosts' = ratingPosts \ {post}
          /\ storedRatings' = IF BackendStores(outcome)
                              THEN storedRatings \cup {post.rating.id}
                              ELSE storedRatings
          /\ IF RatingAcknowledged(outcome)
             THEN /\ handleAddRating(post.rating)
                  /\ ratings' = Spread(ratings, post.rating.model, <<>>)
                  /\ notes' = Spread(notes, post.rating.model, "")
                  /\ enteredFor' = Spread(enteredFor, post.rating.model, {})
                  /\ lastRatingChange' =
                        SelectSeq(lastRatingChange,
                                  LAMBDA call : call.modelKey # post.rating.model)
             ELSE UNCHANGED <<tabRatings, localStorage, ratings, notes,
                              lastRatingChange, enteredFor>>
    /\ UNCHANGED <<variant, backend, biographyType, scientists, availableModels, selectedScientist, biographyData,
                   selectedModel, biographyFetches, ratingClock>>

BioNext ==
    \/ LoadData /\ UNCHANGED <<genVars, anonVars, appVars>>
    \/ SelectScientist /\ UNCHANGED <<genVars, anonVars, appVars>>
    \/ BiographyArrives /\ UNCHANGED <<genVars, anonVars, appVars>>
    \/ ChangeSelection /\ UNCHANGED <<genVars, anonVars, appVars>>
    \/ SelectModel /\ UNCHANGED <<genVars, anonVars, appVars>>
    \/ RatingChange /\ UNCHANGED <<genVars, anonVars, appVars>>
    \/ SaveRatingClick /\ UNCHANGED <<genVars, anonVars, appVars>>
    \/ RatingReply /\ UNCHANGED <<genVars, anonVars, activeTab, orphanedRequests, rendered>>

BioSpec == BioInit /\ [][BioNext]_vars

\* Text the rater may type into the notes of a model.
NoteTexts == {"n"}

\* handleNotesChange, from the Additional Notes textarea of a model on screen.
handleNotesChange(modelKey, note) == notes' = Spread(notes, modelKey, note)

NotesChange ==
    /\ \E model \in availableModels : \E note \in NoteTexts :
          /\ RatingSectionShown(model)
          /\ note # NotesOf(ModelKey(model))
          /\ handleNotesChange(ModelKey(model), note)
    /\ UNCHANGED <<variant, backend, storedRatings, biographyType, enteredFor, scientists, availableModels,
                   selectedScientist, biographyData, selectedModel, ratings,
                   biographyFetches, ratingPosts, tabRatings, ratingClock,
                   lastRatingChange>>

\* The Minimal and Comprehensive buttons of the three-category version:
\* setBiographyType('minimal') / setBiographyType('comprehensive').
SetBiographyType ==
    /\ variant = "three"
    /\ SelectionShown
    /\ \E type \in {"minimal", "comprehensive"} :
          /\ type # biographyType
          /\ biographyType' = type
    /\ UNCHANGED <<variant, backend, storedRatings, notes, enteredFor, scientists, availableModels,
                   selectedScientist, biographyData, selectedModel, ratings,
                   biographyFetches, ratingPosts, tabRatings, ratingClock,
                   lastRatingChange>>

\* The three-category version with its notes and its biography type, one
\* scientist and one model.
PhaseInit ==
    /\ GenMounted /\ BioMounted /\ Unobserved /\ variant = "three" /\ Serves({"A"}, {<<"G", "4">>})
    /\ AppStarted("ai-comparison", BioStore)

PhaseNext ==
    \/ BioNext
    \/ NotesChange /\ UNCHANGED <<genVars, anonVars, appVars>>
    \/ SetBiographyType /\ UNCHANGED <<genVars, anonVars, appVars>>

PhaseSpec == PhaseInit /\ [][PhaseNext]_vars

\* The three-category version with two scientists and one model.
SciInit ==
    /\ GenMounted /\ BioMounted /\ Unobserved /\ variant = "three" /\ Serves(Scientists, {<<"G", "4">>})
    /\ AppStarted("ai-comparison", BioStore)

SciSpec == SciInit /\ [][BioNext]_vars

\* ================================================== model anonymization
\* name.toLowerCase()
LowerCase(name) == [i \in 1..Len(name) |-> toLowerCase(name[i])]

\* A String.prototype.includes that would look at the start of the name only.
startsWith(name, keyword) ==
    Len(name) >= Len(keyword) /\ SubSeq(name, 1, Len(keyword)) = keyword

\* String.prototype.includes
includes(name, keyword) ==
    \E i \in 1..(Len(name) - Len(keyword) + 1) :
        SubSeq(name, i, i + Len(keyword) - 1) = keyword

\* name.charAt(0).toUpperCase(): the empty string for an empty name.
FirstCharacterUpperCase(name) == IF name = <<>> THEN <<>> ELSE <<toUpperCase(name[1])>>

\* A getInitial without keyword rules.
getInitial_FirstCharacter(name) == FirstCharacterUpperCase(name)

\* getInitial: the first keyword rule that matches the lower-cased name,
\* otherwise the upper-cased first character.
getInitial(name) ==
    LET lowerName == LowerCase(name)
    IN IF includes(lowerName, <<"d", "e", "e", "p", "s", "e", "e", "k">>) THEN <<"D">>
       ELSE IF includes(lowerName, <<"g", "p", "t">>) \/ includes(lowerName, <<"d", "a", "v", "i", "n", "c", "i">>) THEN <<"G">>
       ELSE IF includes(lowerName, <<"q", "w", "e", "n">>) THEN <<"Q">>
       ELSE IF includes(lowerName, <<"g", "e", "m", "m", "a">>) THEN <<"M">>
       ELSE IF includes(lowerName, <<"c", "l", "a", "u", "d", "e">>) THEN <<"C">>
       ELSE IF includes(lowerName, <<"g", "e", "m", "i", "n", "i">>) \/ includes(lowerName, <<"b", "a", "r", "d">>) THEN <<"E">>
       ELSE IF includes(lowerName, <<"l", "l", "a", "m", "a">>) THEN <<"L">>
       ELSE IF includes(lowerName, <<"m", "i", "s", "t", "r", "a", "l">>) \/ includes(lowerName, <<"m", "i", "x", "t", "r", "a", "l">>) THEN <<"X">>
       ELSE IF includes(lowerName, <<"c", "o", "h", "e", "r", "e">>) THEN <<"H">>
       ELSE IF includes(lowerName, <<"p", "a", "l", "m">>) THEN <<"P">>
       ELSE IF includes(lowerName, <<"y", "i", "-">>) THEN <<"Y">>
       ELSE FirstCharacterUpperCase(name)

\* A label that would be numbered by the models loaded in the session.
getAnonymizedModelName_BySessionModels(modelName) ==
    <<"B", "i", "o", "-">> \o
        (IF availableModels = {} THEN getInitial(modelName) ELSE <<"1">>)

\* `Bio-${getInitial(modelName)}`
getAnonymizedModelName(modelName) == <<"B", "i", "o", "-">> \o getInitial(modelName)

\* The pieces the observed model names are put together from.
NameParts == {<<>>, <<"C", "l", "a", "u", "d", "e">>, <<"c", "l", "a", "u", "d", "e">>, <<"D", "e", "e", "p", "S", "e", "e", "k">>, <<"d", "e", "e", "p", "s", "e", "e", "k">>, <<"g", "p", "t">>, <<"-", "v", "3">>}

\* The model names under observation: up to two pieces each.
AnonNameInputs == {a \o b : a, b \in NameParts}

\* A call of getAnonymizedModelName (as getDisplayModelName does in a
\* render) for the n-th observed name, recorded with its result and with
\* whether the models of the session were loaded at the time.
AnonCall ==
    /\ \E n \in 1..Len(anonNames) :
          anonCalls' = [anonCalls EXCEPT ![n] =
                           @ \cup {[label |-> getAnonymizedModelName(anonNames[n]),
                                     loaded |-> availableModels # {}]}]
    /\ UNCHANGED <<anonNames, bioVars, genVars, appVars>>

\* The page is loaded again: a new session with a freshly mounted
\* ModelComparison.
NewSession ==
    /\ scientists # {}
    /\ scientists' = {}
    /\ availableModels' = {}
    /\ selectedScientist' = "null"
    /\ biographyData' = "null"
    /\ selectedModel' = <<>>
    /\ ratings' = EmptyObject
    /\ notes' = EmptyObject
    /\ biographyType' = "minimal"
    /\ biographyFetches' = {}
    /\ ratingPosts' = {}
    /\ lastRatingChange' = <<>>
    /\ enteredFor' = EmptyObject
    /\ UNCHANGED <<variant, backend, tabRatings, ratingClock, storedRatings, anonVars, genVars, appVars>>

AnonInit ==
    /\ GenMounted
    /\ BioMounted
    /\ variant = "four"
    /\ Serves(Scientists, Models)
    /\ anonNames \in AnonNameInputs \X AnonNameInputs
    /\ anonCalls = <<{}, {}>>
    /\ AppStarted("ai-comparison", BioStore)

AnonNext ==
    \/ LoadData /\ UNCHANGED <<genVars, anonVars, appVars>>
    \/ AnonCall
    \/ NewSession

AnonSpec == AnonInit /\ [][AnonNext]_vars

\* The pieces the names of the rule check are put together from: every
\* keyword, some in another case, and pieces that match no rule.
RuleParts ==
    {<<>>,
     <<"d", "e", "e", "p", "s", "e", "e", "k">>,
     <<"g", "p", "t">>,
     <<"d", "a", "v", "i", "n", "c", "i">>,
     <<"q", "w", "e", "n">>,
     <<"g", "e", "m", "m", "a">>,
     <<"c", "l", "a", "u", "d", "e">>,
     <<"g", "e", "m", "i", "n", "i">>,
     <<"b", "a", "r", "d">>,
     <<"l", "l", "a", "m", "a">>,
     <<"m", "i", "s", "t", "r", "a", "l">>,
     <<"m", "i", "x", "t", "r", "a", "l">>,
     <<"c", "o", "h", "e", "r", "e">>,
     <<"p", "a", "l", "m">>,
     <<"y", "i", "-">>,
     <<"y", "i">>,
     <<"C", "l", "a", "u", "d", "e">>,
     <<"G", "P", "T">>,
     <<"B", "a", "r", "d">>,
     <<"x">>,
     <<"-", "7", "b">>}

\* One name is under observation: up to two pieces.
RuleInit ==
    /\ GenMounted
    /\ BioMounted
    /\ variant = "four"
    /\ Serves(Scientists, Models)
    /\ anonNames \in {<<a \o b>> : a, b \in RuleParts}
    /\ anonCalls = <<{}>>
    /\ AppStarted("ai-comparison", BioStore)

RuleSpec == RuleInit /\ [][AnonNext]_vars

\* ============================================== mounting and the local store
MaxRelationships == 3   \* relationships the rater may add

\* The relationships the rater can record.
Relationships == {"r1", "r2", "r3"}

\* A GenealogyTab that has just been created: its hooks hold their initial
\* values, no timer and no run of an earlier instance is left.
GenealogyTabFresh ==
    /\ people' = <<>>
    /\ peopleLoaded' = FALSE
    /\ assessmentStarted' = FALSE
    /\ currentScientistIndex' = 0
    /\ assessmentData' = <<>>
    /\ isSavingAll' = FALSE
    /\ saveAllStatus' = "idle"
    /\ saveRuns' = <<>>
    /\ pendingAdvance' = <<>>
    /\ pendingReset' = 0
    /\ pendingIdle' = 0
    /\ relationships' = <<>>
    /\ UNCHANGED <<clock, storedAssessments>>

\* An AIComparisonTab with its ModelComparison that has just been created,
\* the ratings hook holding the given list.
AIComparisonTabFresh(list) ==
    /\ scientists' = {}
    /\ availableModels' = {}
    /\ selectedScientist' = "null"
    /\ biographyData' = "null"
    /\ selectedModel' = <<>>
    /\ ratings' = EmptyObject
    /\ notes' = EmptyObject
    /\ biographyType' = "minimal"
    /\ biographyFetches' = {}
    /\ ratingPosts' = {}
    /\ lastRatingChange' = <<>>
    /\ enteredFor' = EmptyObject
    /\ tabRatings' = list
    /\ UNCHANGED <<variant, backend, ratingClock, storedRatings>>

\* No request of either tab is in flight and no timer is pending.
Quiescent == Pending = 0 /\ biographyFetches = {} /\ ratingPosts = {}

\* The mount of GenealogyTab: the first effect calls loadPeopleFromAPI, which
\* runs up to its await; the second effect then writes the relationships of
\* the first render, [], to the local store.
MountGenealogyTab ==
    /\ GenealogyTabFresh
    /\ localStorage' = [localStorage EXCEPT !["genealogy-relationships"] = << <<>> >>]

\* The page is opened: App renders with activeTab 'genealogy'.
OpenPage ==
    /\ activeTab = "unloaded"
    /\ activeTab' = "genealogy"
    /\ MountGenealogyTab
    /\ UNCHANGED <<bioVars, anonVars, orphanedRequests, rendered>>

\* handleAddRelationship (the questionnaire of the two earlier versions of
\* GenealogyTab reports a relationship), followed by the persistence effect.
handleAddRelationship(relationship) ==
    /\ relationships' = Append(relationships, relationship)
    /\ localStorage' = [localStorage EXCEPT
                           !["genealogy-relationships"] =
                               <<Append(relationships, relationship)>>]

AddRelationship ==
    /\ activeTab = "genealogy"
    /\ Len(people) > 0
    /\ Len(relationships) < MaxRelationships
    /\ \E relationship \in Relationships : handleAddRelationship(relationship)
    /\ UNCHANGED <<storedAssessments, people, peopleLoaded, assessmentStarted,
                   currentScientistIndex, assessmentData, isSavingAll, saveAllStatus,
                   saveRuns, pendingAdvance, pendingReset, pendingIdle, clock>>
    /\ UNCHANGED <<bioVars, anonVars, activeTab, orphanedRequests, rendered>>

\* The page is closed or loaded again while nothing is in flight: every
\* component is gone, the local store stays.
ClosePage ==
    /\ activeTab # "unloaded"
    /\ Quiescent
    /\ activeTab' = "unloaded"
    /\ GenealogyTabFresh
    /\ AIComparisonTabFresh(<<>>)
    /\ orphanedRequests' = NoRequests
    /\ UNCHANGED <<localStorage, rendered, anonVars>>

\* The local stores an earlier session may have left: nothing at all, or a
\* cached people list with the relationships recorded then.
EarlierStores ==
    {[k \in StoreKeys |-> <<>>]}
    \cup {[k \in StoreKeys |->
              IF k = "genealogy-people" THEN <<cached>>
              ELSE IF k = "genealogy-relationships" THEN <<recorded>>
              ELSE <<>>] :
            cached \in {<<1>>, <<1, 2>>},
            recorded \in {<<>>, <<"r1">>, <<"r2", "r1">>}}

MountInit ==
    /\ GenMounted /\ BioMounted /\ Unobserved /\ variant = "three" /\ Serves(Scientists, Models)
    /\ \E store \in EarlierStores : AppStarted("unloaded", store)

MountNext ==
    \/ OpenPage
    \/ LoadPeople /\ UNCHANGED <<bioVars, anonVars, activeTab, orphanedRequests, rendered>>
    \/ AddRelationship
    \/ ClosePage

MountSpec == MountInit /\ [][MountNext]_vars

\* ======================================================= switching tabs
\* ModelRatings the rater may submit when the tabs are switched.
MaxPosts == MaxRatings + 1

\* The Genealogy tab is chosen (setActiveTab('genealogy')): AIComparisonTab
\* and its ModelComparison are unmounted, their requests stay in flight;
\* GenealogyTab is mounted.
SwitchToGenealogy ==
    /\ activeTab = "ai-comparison"
    /\ activeTab' = "genealogy"
    /\ orphanedRequests' = [orphanedRequests EXCEPT !.ratingPosts = @ \cup ratingPosts]
    /\ AIComparisonTabFresh(<<>>)
    /\ MountGenealogyTab
    /\ UNCHANGED <<anonVars, rendered>>

\* The mount of AIComparisonTab: the first effect reads 'ai-model-ratings'
\* and, when the key is there, sets the ratings to it; the second effect
\* writes the ratings of the first render, [], and after the render of the
\* list that was read it writes that list again.
MountAIComparisonTab ==
    LET savedRatings == localStorage["ai-model-ratings"]
        list == IF savedRatings # <<>> THEN savedRatings[1] ELSE <<>>
    IN /\ AIComparisonTabFresh(list)
       /\ localStorage' = [localStorage EXCEPT !["ai-model-ratings"] = <<list>>]

\* The Biography tab is chosen while no assessment run or timer of
\* GenealogyTab is pending: GenealogyTab is unmounted, its people fetch, if
\* not settled, stays in flight; AIComparisonTab is mounted.
SwitchToComparison ==
    /\ activeTab = "genealogy"
    /\ Pending = 0
    /\ activeTab' = "ai-comparison"
    /\ orphanedRequests' = [orphanedRequests EXCEPT !.peopleFetch = @ \/ ~peopleLoaded]
    /\ GenealogyTabFresh
    /\ MountAIComparisonTab
    /\ UNCHANGED <<anonVars, rendered>>

\* POST /api/ratings of an unmounted ModelComparison is answered: the
\* backend stores the rating as it does for a mounted one; the continuation
\* of saveRating calls onAddRating, setRatings and setNotes of components
\* that are gone, which changes nothing.
OrphanedRatingReply ==
    /\ \E post \in orphanedRequests.ratingPosts : \E outcome \in Outcomes :
          /\ orphanedRequests' = [orphanedRequests EXCEPT !.ratingPosts = @ \ {post}]
          /\ storedRatings' = IF BackendStores(outcome)
                              THEN storedRatings \cup {post.rating.id}
                              ELSE storedRatings
    /\ UNCHANGED <<variant, backend, biographyType, notes, scientists, availableModels,
                   selectedScientist, biographyData, selectedModel, ratings,
                   biographyFetches, ratingPosts, tabRatings, ratingClock,
                   lastRatingChange, enteredFor>>
    /\ UNCHANGED <<genVars, anonVars, activeTab, localStorage, rendered>>

\* The three-category version with one scientist and one model; the
\* Biography tab is on screen. GET /api/people of a GenealogyTab stays
\* unanswered while the rater switches tabs.
TabInit ==
    /\ GenMounted /\ BioMounted /\ Unobserved /\ variant = "three" /\ Serves({"A"}, {<<"G", "4">>})
    /\ AppStarted("ai-comparison", BioStore)

OnComparisonTab == activeTab = "ai-comparison"

TabNext ==
    \/ OnComparisonTab /\ LoadData /\ UNCHANGED <<genVars, anonVars, appVars>>
    \/ OnComparisonTab /\ SelectScientist /\ UNCHANGED <<genVars, anonVars, appVars>>
    \/ OnComparisonTab /\ BiographyArrives /\ UNCHANGED <<genVars, anonVars, appVars>>
    \/ OnComparisonTab /\ ChangeSelection /\ UNCHANGED <<genVars, anonVars, appVars>>
    \/ OnComparisonTab /\ SelectModel /\ UNCHANGED <<genVars, anonVars, appVars>>
    \/ OnComparisonTab /\ RatingChange /\ UNCHANGED <<genVars, anonVars, appVars>>
    \/ OnComparisonTab /\ SaveRatingClicked(MaxPosts) /\ UNCHANGED <<genVars, anonVars, appVars>>
    \/ OnComparisonTab /\ RatingReply
          /\ UNCHANGED <<genVars, anonVars, activeTab, orphanedRequests, rendered>>
    \/ SwitchToGenealogy
    \/ SwitchToComparison
    \/ OrphanedRatingReply

TabSpec == TabInit /\ [][TabNext]_vars

\* ------------------------------------------- ratings of several models
\* A complete list of the three-category version, in the order of the clicks.
CompleteRatings ==
    <<[category |-> "affiliation", score |-> 1],
      [category |-> "research", score |-> 5],
      [category |-> "gender", score |-> 5]>>

\* The three-category version after loadData, the choice of scientist A, the
\* arrival of the biography and the rating of both models in every category,
\* the second model last; nothing has been saved yet.
OrderInit ==
    /\ GenMounted /\ Unobserved /\ variant = "three" /\ Serves({"A"}, Models)
    /\ AppStarted("ai-comparison", BioStore)
    /\ scientists = {"A"}
    /\ availableModels = Models
    /\ selectedScientist = "A"
    /\ biographyData = "A"
    /\ selectedModel = <<"Q", "-", "1">>
    /\ ratings = [k \in {ModelKey(model) : model \in Models} |-> CompleteRatings]
    /\ biographyFetches = {}
    /\ ratingPosts = {}
    /\ tabRatings = <<>>
    /\ ratingClock = 0
    /\ lastRatingChange = <<[modelKey |-> <<"q", "_", "1">>, category |-> "gender",
                             score |-> 5]>>
    /\ biographyType = "minimal"
    /\ notes = EmptyObject
    /\ enteredFor = [k \in {ModelKey(model) : model \in Models} |-> {"A"}]
    /\ storedRatings = {}

\* The rater keeps the scientist and the scores, changes the model on screen,
\* writes notes and saves.
OrderNext ==
    \/ SelectModel /\ UNCHANGED <<genVars, anonVars, appVars>>
    \/ NotesChange /\ UNCHANGED <<genVars, anonVars, appVars>>
    \/ SaveRatingClicked(MaxPosts) /\ UNCHANGED <<genVars, anonVars, appVars>>
    \/ RatingReply /\ UNCHANGED <<genVars, anonVars, activeTab, orphanedRequests, rendered>>

OrderSpec == OrderInit /\ [][OrderNext]_vars

\* ========================================================= RatingsSummary
MaxRecords == 3         \* longest rating list that is summarised

\* ratings.slice().reverse().slice(0, 10)
RecentLimit == 10

\* `total${r.category.charAt(0).toUpperCase() + r.category.slice(1)}`
TotalKey(category) ==
    CASE category = "affiliation" -> "totalAffiliation"
      [] category = "research" -> "totalResearch"
      [] category = "gender" -> "totalGender"
      [] category = "supervision" -> "totalSupervision"

\* acc[rating.model][key] += r.score: the two totals the entry was created
\* with are summed; any other key is undefined at first, undefined + score
\* is NaN and stays NaN.
AddScore(stats, r) ==
    IF TotalKey(r.category) = "totalAffiliation"
    THEN [stats EXCEPT !.totalAffiliation = @ + r.score]
    ELSE IF TotalKey(r.category) = "totalResearch"
    THEN [stats EXCEPT !.totalResearch = @ + r.score]
    ELSE [stats EXCEPT !.notANumber = @ \cup {TotalKey(r.category)}]

\* rating.ratings.forEach(...)
RECURSIVE AddScores(_, _)
AddScores(stats, list) ==
    IF list = <<>> THEN stats
    ELSE AddScores(AddScore(stats, Head(list)), Tail(list))

\* The reduce callback of modelStats.
ModelStatsStep(acc, rating) ==
    LET created == IF HasKey(acc, rating.model)
                   THEN acc
                   ELSE Put(acc, rating.model,
                            [count |-> 0, totalAffiliation |-> 0, totalResearch |-> 0,
                             notANumber |-> {}])
        counted == [Get(created, rating.model) EXCEPT !.count = @ + 1]
    IN Put(created, rating.model, AddScores(counted, rating.ratings))

RECURSIVE Reduce(_, _, _)
Reduce(Step(_, _), acc, list) ==
    IF list = <<>> THEN acc
    ELSE Reduce(Step, Step(acc, Head(list)), Tail(list))

\* Statistics whose count would be the number of all ratings.
modelStats_CountingEveryRating(list) ==
    LET stats == Reduce(ModelStatsStep, <<>>, list)
    IN [i \in 1..Len(stats) |->
           [stats[i] EXCEPT !.value = [@ EXCEPT !.count = Len(list)]]]

\* const modelStats = ratings.reduce(..., {}): an object whose entries are
\* kept in insertion order (a modelKey is no integer-like key).
modelStats(list) == Reduce(ModelStatsStep, <<>>, list)

\* (num / den).toFixed(1): the decimal string with one digit after the point
\* that is nearest to the quotient, the larger one of two equally near.  The
\* quotients here have denominators up to 2 * MaxRecords, whose ties (the
\* quarters) are exact in binary floating point.
toFixed(num, den) ==
    LET n == (20 * num + den) \div (2 * den)
    IN [units |-> n \div 10, tenth |-> n % 10]

\* parseFloat of such a string, in tenths.
parseFloat(fixed) == 10 * fixed.units + fixed.tenth

\* The map callback of modelAverages.
modelAverage(entry) ==
    [model |-> entry.key,
     count |-> entry.value.count,
     avgAffiliation |-> toFixed(entry.value.totalAffiliation, entry.value.count),
     avgResearch |-> toFixed(entry.value.totalResearch, entry.value.count),
     overall |-> toFixed(entry.value.totalAffiliation + entry.value.totalResearch,
                         entry.value.count * 2)]

\* Object.entries(modelStats).map(...)
modelAverages(list) ==
    LET stats == modelStats(list)
    IN [i \in 1..Len(stats) |-> modelAverage(stats[i])]

\* Array.prototype.sort with (a, b) => parseFloat(b.overall) -
\* parseFloat(a.overall): descending, and stable, so an element goes behind
\* every element placed before it that is not smaller.
RECURSIVE sortByOverall(_)
sortByOverall(averages) ==
    IF averages = <<>> THEN <<>>
    ELSE LET n == Len(averages)
             front == sortByOverall(SubSeq(averages, 1, n - 1))
             last == averages[n]
             k == Cardinality({i \in 1..Len(front) :
                                  parseFloat(front[i].overall) >= parseFloat(last.overall)})
         IN SubSeq(front, 1, k) \o <<last>> \o SubSeq(front, k + 1, Len(front))

sortedModels(list) == sortByOverall(modelAverages(list))

RECURSIVE SumOfScores(_)
SumOfScores(list) ==
    IF list = <<>> THEN 0 ELSE Head(list).score + SumOfScores(Tail(list))

\* The reduce callback of techniqueStats.  totalScore is kept in twelfths:
\* avgScore is a sum of scores over 1 to 4 entries.
TechniqueStatsStep(acc, rating) ==
    LET created == IF rating.technique \in DOMAIN acc
                   THEN acc
                   ELSE Spread(acc, rating.technique, [count |-> 0, totalScore |-> 0])
        avgScore == (12 * SumOfScores(rating.ratings)) \div Len(rating.ratings)
    IN Spread(created, rating.technique,
              [count |-> created[rating.technique].count + 1,
               totalScore |-> created[rating.technique].totalScore + avgScore])

techniqueStats(list) == Reduce(TechniqueStatsStep, EmptyObject, list)

\* ratings.slice().reverse()
Reverse(list) == [i \in 1..Len(list) |-> list[Len(list) + 1 - i]]

\* The Recent Activity list: the records shown, top to bottom.
RecentActivity(list) ==
    LET reversed == Reverse(list)
    IN SubSeq(reversed, 1, IF Len(reversed) < RecentLimit THEN Len(reversed) ELSE RecentLimit)

\* What one render of RatingsSummary shows.
RatingsSummary(list) ==
    [total |-> Len(list),
     modelsCompared |-> Len(modelStats(list)),
     techniquesUsed |-> Cardinality(DOMAIN techniqueStats(list)),
     rankings |-> sortedModels(list),
     techniques |-> techniqueStats(list),
     recent |-> [i \in 1..Len(RecentActivity(list)) |->
                    LET rating == RecentActivity(list)[i]
                    IN [id |-> rating.id, model |-> rating.model,
                        technique |-> rating.technique,
                        score |-> toFixed(SumOfScores(rating.ratings), Len(rating.ratings)),
                        timestamp |-> rating.timestamp]]]

\* AIComparisonTab renders <RatingsSummary ratings={ratings} /> when the
\* list is not empty.
Render ==
    /\ Len(tabRatings) > 0
    /\ rendered' = rendered \cup {[ratings |-> tabRatings, view |-> RatingsSummary(tabRatings)]}
    /\ UNCHANGED <<genVars, bioVars, anonVars, activeTab, localStorage, orphanedRequests>>

\* The score lists of the records that are summarised: affiliation and
\* research, with or without gender.
SummaryScores ==
    {<<[category |-> "affiliation", score |-> 5], [category |-> "research", score |-> 5]>>,
     <<[category |-> "affiliation", score |-> 1], [category |-> "research", score |-> 3]>>,
     <<[category |-> "affiliation", score |-> 5], [category |-> "research", score |-> 5],
       [category |-> "gender", score |-> 1]>>,
     <<[category |-> "affiliation", score |-> 4], [category |-> "research", score |-> 4],
       [category |-> "gender", score |-> 5]>>}

\* A ModelRating accepted by the backend reaches handleAddRating.
AddRating ==
    /\ Len(tabRatings) < MaxRecords
    /\ \E model \in {"x", "y"} : \E technique \in {"zero-shot", "few-shot"} :
       \E scores \in SummaryScores :
          handleAddRating([id |-> Len(tabRatings) + 1, model |-> model,
                           technique |-> technique, ratings |-> scores,
                           timestamp |-> Len(tabRatings) + 1])
    /\ UNCHANGED <<variant, backend, biographyType, notes, scientists, availableModels,
                   selectedScientist, biographyData, selectedModel, ratings,
                   biographyFetches, ratingPosts, ratingClock, lastRatingChange,
                   enteredFor, storedRatings>>
    /\ UNCHANGED <<genVars, anonVars, activeTab, orphanedRequests, rendered>>

SummaryInit ==
    /\ GenMounted /\ BioMounted /\ Unobserved /\ variant = "three" /\ Serves(Scientists, Models)
    /\ AppStarted("ai-comparison", BioStore)

SummaryNext ==
    \/ AddRating
    \/ Render

SummarySpec == SummaryInit /\ [][SummaryNext]_vars

\* ================================================================== claims
\* The scientist index (key of assessmentData) a record was saved for.
IndexOf(rec) == CHOOSE i \in 0..(Len(people) - 1) : people[i + 1] = rec.person_name

\* The records a run has POSTed so far, in the order of the POSTs.
PostedBy(run) == SubSeq(run.assessmentsToSave, 1, run.posted)

\* POSTs of the genealogy controller that are awaiting their response.
InFlight == {r \in 1..Len(saveRuns) : saveRuns[r].reply = "pending"}

\* The step in which a saveAllAssessments call returns.
RunEnds == Len(saveRuns) = 1 /\ saveRuns' = <<>>

\* Every record of the run that ends was stored by the backend.
EveryRecordSucceeded == saveRuns[1].stored = Len(saveRuns[1].assessmentsToSave)

\* The categories a rating list has entries for.
CategoriesOf(list) == {list[i].category : i \in 1..Len(list)}

\* The categories the version that is built requires.
RequiredCategories == {ratingCategories[i] : i \in 1..Len(ratingCategories)}

\* The list holds exactly one entry for every required category.
OnePerCategory(list) ==
    /\ Len(list) = Cardinality(RequiredCategories)
    /\ CategoriesOf(list) = RequiredCategories

\* C1: a ModelRating is posted only when the list stored for its modelKey
\* holds exactly one entry for every required category (3 or 4); the posted
\* ratings are that list, so every posted record has that many entries with
\* pairwise distinct categories, and with fewer entries nothing is posted.
C1_PostsOnlyCompleteRatings ==
    /\ [](\A post \in ratingPosts : OnePerCategory(post.rating.ratings))
    /\ [][\A post \in ratingPosts' \ ratingPosts :
             /\ OnePerCategory(RatingsOf(post.rating.model))
             /\ post.rating.ratings = RatingsOf(post.rating.model)]_vars

\* C1 witness: in the four-category version a record is in flight, and the
\* rater has changed a score of that model since it was posted.
C1_Witness ==
    \E post \in ratingPosts :
        /\ variant = "four"
        /\ Len(post.rating.ratings) = 4
        /\ RatingsOf(post.rating.model) # post.rating.ratings

\* C2: the list stored under a key never holds two entries of one category,
\* the entry of the category rated last carries the score of that call, and
\* a call leaves the entries of every other key and category as they are
\* (so each entry carries the score of the latest call for its key and
\* category).
C2_LastWriteWins ==
    /\ [](\A k \in DOMAIN ratings : \A i, j \in 1..Len(ratings[k]) :
             i # j => ratings[k][i].category # ratings[k][j].category)
    /\ [](\A n \in 1..Len(lastRatingChange) :
             \E i \in 1..Len(RatingsOf(lastRatingChange[n].modelKey)) :
                 RatingsOf(lastRatingChange[n].modelKey)[i]
                     = [category |-> lastRatingChange[n].category,
                        score |-> lastRatingChange[n].score])
    /\ [][(lastRatingChange' # <<>> /\ tabRatings' = tabRatings)
             => \A k \in DOMAIN ratings : \A i \in 1..Len(ratings[k]) :
                   (k # lastRatingChange'[1].modelKey
                      \/ ratings[k][i].category # lastRatingChange'[1].category)
                   => /\ k \in DOMAIN ratings'
                      /\ \E j \in 1..Len(ratings'[k]) : ratings'[k][j] = ratings[k][i]]_vars

\* C2 witness: affiliation was rated 5 (as posted) and then 1 under one key
\* while the other key holds ratings of its own.
C2_Witness ==
    /\ \E post \in ratingPosts :
          /\ \E i \in 1..Len(post.rating.ratings) :
                post.rating.ratings[i] = [category |-> "affiliation", score |-> 5]
          /\ lastRatingChange = <<[modelKey |-> post.rating.model,
                                   category |-> "affiliation", score |-> 1]>>
    /\ \E k \in DOMAIN ratings : k # lastRatingChange[1].modelKey /\ ratings[k] # <<>>

C5_SuccessIffAllSucceeded ==
    [][RunEnds =>
         /\ saveAllStatus' \in {"success", "error"}
         /\ saveAllStatus' = "success" <=> EveryRecordSucceeded]_vars

C7_IndexInRange ==
    assessmentStarted =>
        (0 <= currentScientistIndex /\ currentScientistIndex <= Len(people) - 1)

\* C8: the assessment becomes started only from a non-empty people list and
\* then shows the first scientist; with an empty list it stays not started.
C8_StartOnlyWithPeople ==
    /\ [][(~assessmentStarted /\ assessmentStarted')
             => (Len(people) > 0 /\ currentScientistIndex' = 0)]_vars
    /\ [](Len(people) = 0 => ~assessmentStarted)

\* C8 witness: the assessment is running at the first scientist although an
\* assessment of a later scientist is already stored (saved before the
\* rater left and started again, or went back).
C8_Witness ==
    /\ assessmentStarted
    /\ currentScientistIndex = 0
    /\ HasKey(assessmentData, 1)
    /\ ~HasKey(assessmentData, 0)

\* C9 (as stated): the session reset is scheduled exactly by a run in which
\* every record succeeded, and a run ending with 'error' leaves the session
\* state as it is.
C9_ResetIffAllSucceeded ==
    [][RunEnds =>
         /\ pendingReset' > pendingReset <=> EveryRecordSucceeded
         /\ saveAllStatus' = "error"
               => UNCHANGED <<assessmentStarted, currentScientistIndex, assessmentData>>]_vars

\* C10: every run eventually returns with status 'success' or 'error', and
\* the status is eventually 'idle' again.
C10_RunFinishes ==
    /\ isSavingAll ~> (~isSavingAll /\ saveAllStatus \in {"success", "error"})
    /\ (saveAllStatus \in {"success", "error"}) ~> (saveAllStatus = "idle")

\* C10 witness: a run has returned with 'error'; its 5000 ms timer is pending.
C10_Witness == ~isSavingAll /\ saveAllStatus = "error" /\ pendingIdle > 0

\* The step in which the rater leaves the assessment with Exit Assessment.
ExitStep == assessmentStarted /\ ~assessmentStarted' /\ assessmentData' = assessmentData

\* C11 (as stated): Exit Assessment does not cancel the POST in flight, and
\* once the rater has left the assessment (not started, saved assessments
\* still held) no run posts a further record.
C11_NoPostAfterExit ==
    [][/\ ExitStep => saveRuns' = saveRuns
       /\ (~assessmentStarted /\ assessmentData # <<>>)
             => \A r \in 1..Len(saveRuns) :
                   Len(saveRuns') = Len(saveRuns)
                       => saveRuns'[r].posted <= saveRuns[r].posted]_vars

\* C16 (as stated): Next and Previous are available whatever has been saved,
\* and a saveAllAssessments run starts only when the final scientist has a
\* saved assessment.
C16_SaveAllNeedsFinalScientist ==
    /\ []((assessmentStarted /\ currentScientistIndex < Len(people) - 1)
             => ENABLED (NextClick /\ UNCHANGED <<bioVars, anonVars, appVars>>))
    /\ []((assessmentStarted /\ currentScientistIndex > 0)
             => ENABLED (PreviousClick /\ UNCHANGED <<bioVars, anonVars, appVars>>))
    /\ [][Len(saveRuns') > Len(saveRuns)
             => HasKey(assessmentData, Len(people) - 1)]_vars

\* C17: assessmentData holds at most one record per scientist index; a save
\* for an index that already has a record keeps the record's id and
\* timestamp and stores a form value as supervisors, a save for a new index
\* adds one record, and the records of all other indices stay as they are.
C17_OneRecordPerScientist ==
    /\ [](\A i, j \in 1..Len(assessmentData) :
             i # j => assessmentData[i].key # assessmentData[j].key)
    /\ [][(assessmentData' # assessmentData /\ assessmentData' # <<>>)
             => /\ \A k \in ObjectKeySet(assessmentData) :
                      /\ HasKey(assessmentData', k)
                      /\ Get(assessmentData', k).id = Get(assessmentData, k).id
                      /\ Get(assessmentData', k).timestamp = Get(assessmentData, k).timestamp
                      /\ Get(assessmentData', k).person_name = Get(assessmentData, k).person_name
                      /\ k # currentScientistIndex
                            => Get(assessmentData', k) = Get(assessmentData, k)
                /\ ObjectKeySet(assessmentData') \subseteq
                       ObjectKeySet(assessmentData) \cup {currentScientistIndex}
                /\ Get(assessmentData', currentScientistIndex).supervisors
                       \in FormValues \cup RevisedValues]_vars

\* C17 witness: the first scientist was saved, a later scientist was saved,
\* and the first one was saved again with revised text: its record still
\* carries the first id, the other record is in place.
C17_Witness ==
    /\ Len(assessmentData) = 2
    /\ HasKey(assessmentData, 0)
    /\ Get(assessmentData, 0).supervisors = "b"
    /\ Get(assessmentData, 0).id = 1
    /\ clock = 2

\* C12 (as stated): while a scientist is selected the rating map holds no
\* entry that was entered under another scientist, and a ModelRating is
\* posted with the scientist_name under which all its scores were entered.
C12_ScoresPerScientist ==
    /\ [](selectedScientist # "null"
             => \A k \in DOMAIN ratings :
                   ratings[k] # <<>> => EnteredFor(k) \subseteq {selectedScientist})
    /\ [][\A post \in ratingPosts' \ ratingPosts :
             EnteredFor(post.rating.model) \subseteq {post.scientist_name}]_vars

\* Every model of the selected scientist has all its categories rated, in
\* the rating map or in a saved ModelRating.
ItemFullyRated ==
    /\ availableModels # {}
    /\ \A model \in availableModels :
          \/ Len(RatingsOf(ModelKey(model))) = RequiredRatings
          \/ \E i \in 1..Len(tabRatings) : tabRatings[i].model = ModelKey(model)

\* C13 (as stated): the move from the minimal to the comprehensive phase
\* happens only when an item is fully rated, and is available when one is.
C13_AdvanceNeedsFullyRatedItem ==
    /\ [][(biographyType = "minimal" /\ biographyType' = "comprehensive")
             => ItemFullyRated]_vars
    /\ []((biographyType = "minimal" /\ ItemFullyRated /\ SelectionShown)
             => ENABLED (SetBiographyType /\ UNCHANGED <<genVars, anonVars, appVars>>))

\* C14 (as stated): the phase starts at minimal and never goes back from
\* comprehensive to minimal.
C14_PhaseOnlyForward ==
    /\ biographyType = "minimal"
    /\ [][biographyType = "comprehensive" => biographyType' = "comprehensive"]_vars

\* C15 (as stated): a change of the biography phase leaves the rating map
\* empty, so no score entered for the other variant is kept or posted.
C15_PhaseChangeClearsRatings ==
    [][biographyType' # biographyType
          => \A k \in DOMAIN ratings' : ratings'[k] = <<>>]_vars

\* C18: the local ratings list holds only ModelRatings the backend has
\* stored, it grows only by the rating of a POST that has just settled, and
\* a POST that settles without the backend having stored the rating leaves
\* the local list, the rating map and the notes as they are.
C18_AppendOnlyAfterAcknowledgement ==
    /\ [](\A i \in 1..Len(tabRatings) : tabRatings[i].id \in storedRatings)
    /\ [][tabRatings' # tabRatings
             => \E post \in ratingPosts \ ratingPosts' :
                   tabRatings' = Append(tabRatings, post.rating)]_vars
    /\ [][\A post \in ratingPosts \ ratingPosts' :
             post.rating.id \notin storedRatings'
                 => UNCHANGED <<tabRatings, ratings, notes>>]_vars

\* C18 witness: a save has failed; the complete list and the notes of the
\* model are still in place, the local list is empty.
C18_Witness ==
    /\ ratingClock = 1
    /\ ratingPosts = {}
    /\ storedRatings = {}
    /\ tabRatings = <<>>
    /\ \E k \in DOMAIN ratings : Len(ratings[k]) = RequiredRatings /\ NotesOf(k) = "n"

ContainsClaude(name) == includes(LowerCase(name), <<"c", "l", "a", "u", "d", "e">>)

ContainsDeepseek(name) == includes(LowerCase(name), <<"d", "e", "e", "p", "s", "e", "e", "k">>)

\* C20 (as stated): a name containing "claude" and a name containing
\* "deepseek" never get the same label.
C20_ClaudeAndDeepseekDiffer ==
    (Len(anonNames) = 2 /\ ContainsClaude(anonNames[1]) /\ ContainsDeepseek(anonNames[2]))
        => \A c \in anonCalls[1] : \A d \in anonCalls[2] : c.label # d.label

\* C20 (as amended): a name containing "claude" but not "deepseek" and a
\* name containing "deepseek" never get the same label.
C20_ClaudeWithoutDeepseekDiffers ==
    (/\ Len(anonNames) = 2
     /\ ContainsClaude(anonNames[1]) /\ ~ContainsDeepseek(anonNames[1])
     /\ ContainsDeepseek(anonNames[2]))
        => \A c \in anonCalls[1] : \A d \in anonCalls[2] : c.label # d.label

\* C20 witness: both names were labelled; the first contains "claude" and
\* another keyword, the second contains "claude" as well as "deepseek".
C20_Witness ==
    /\ Len(anonNames) = 2
    /\ ContainsClaude(anonNames[1]) /\ ~ContainsDeepseek(anonNames[1])
    /\ includes(LowerCase(anonNames[1]), <<"g", "p", "t">>)
    /\ ContainsDeepseek(anonNames[2]) /\ ContainsClaude(anonNames[2])
    /\ anonCalls[1] # {} /\ anonCalls[2] # {}

\* C27 (as stated): saveAllStatus is 'saving' exactly when isSavingAll is
\* true, and while a run is in progress no timer of an earlier run changes
\* saveAllStatus, assessmentStarted or assessmentData.
C27_SavingIffIsSavingAll ==
    /\ []((saveAllStatus = "saving") <=> isSavingAll)
    /\ [][(isSavingAll /\ (pendingReset' < pendingReset \/ pendingIdle' < pendingIdle))
             => UNCHANGED <<saveAllStatus, assessmentStarted, assessmentData>>]_vars

\* C28 (as stated): the backend accepts each saved assessment, identified by
\* its id, at most once in a session.
C28_AcceptedAtMostOnce == \A rec \in storedAssessments : rec.copy = 1

\* What 'genealogy-relationships' holds: [] when the key is absent.
StoredRelationships ==
    IF localStorage["genealogy-relationships"] = <<>>
    THEN <<>>
    ELSE localStorage["genealogy-relationships"][1]

\* C25 (as stated): a non-empty relationship list in the local store is
\* still there after the mount of GenealogyTab, and when loadPeopleFromAPI
\* then completes without a new people list from the backend, the
\* relationships of the session are that list.
C25_StoredRelationshipsRecovered ==
    [][/\ (activeTab = "unloaded" /\ activeTab' = "genealogy"
              /\ StoredRelationships # <<>>)
             => StoredRelationships' = StoredRelationships
       /\ (~peopleLoaded /\ peopleLoaded' /\ localStorage' = localStorage
              /\ StoredRelationships # <<>>)
             => relationships' = StoredRelationships]_vars

\* The rule table of C26, in its order: the keywords of a rule and its initial.
RuleTable ==
    <<[keywords |-> {<<"d", "e", "e", "p", "s", "e", "e", "k">>}, initial |-> "D"],
      [keywords |-> {<<"g", "p", "t">>, <<"d", "a", "v", "i", "n", "c", "i">>}, initial |-> "G"],
      [keywords |-> {<<"q", "w", "e", "n">>}, initial |-> "Q"],
      [keywords |-> {<<"g", "e", "m", "m", "a">>}, initial |-> "M"],
      [keywords |-> {<<"c", "l", "a", "u", "d", "e">>}, initial |-> "C"],
      [keywords |-> {<<"g", "e", "m", "i", "n", "i">>, <<"b", "a", "r", "d">>}, initial |-> "E"],
      [keywords |-> {<<"l", "l", "a", "m", "a">>}, initial |-> "L"],
      [keywords |-> {<<"m", "i", "s", "t", "r", "a", "l">>, <<"m", "i", "x", "t", "r", "a", "l">>}, initial |-> "X"],
      [keywords |-> {<<"c", "o", "h", "e", "r", "e">>}, initial |-> "H"],
      [keywords |-> {<<"p", "a", "l", "m">>}, initial |-> "P"],
      [keywords |-> {<<"y", "i", "-">>}, initial |-> "Y"]>>

\* The rule applies to the name: one of its keywords is a substring of the
\* lower-cased name.
RuleApplies(i, name) ==
    \E keyword \in RuleTable[i].keywords :
        \E from \in 0..(Len(name) - Len(keyword)) :
            \A j \in 1..Len(keyword) : toLowerCase(name[from + j]) = keyword[j]

\* The label C26 gives the name.
RuleLabel(name) ==
    LET applying == {i \in 1..Len(RuleTable) : RuleApplies(i, name)}
    IN <<"B", "i", "o", "-">> \o
       (IF applying # {}
        THEN <<RuleTable[CHOOSE i \in applying : \A j \in applying : i <= j].initial>>
        ELSE IF Len(name) = 0 THEN <<>> ELSE <<toUpperCase(name[1])>>)

\* C26: every label getAnonymizedModelName has returned is 'Bio-' followed
\* by the initial of the first rule of the table whose keyword occurs in the
\* lower-cased name, or by the upper-cased first character of the name when
\* no rule applies.
C26_FirstMatchingRule ==
    \A n \in 1..Len(anonNames) :
        \A c \in anonCalls[n] : c.label = RuleLabel(anonNames[n])

\* C26 witness: a label was returned for a name to which the claude rule and
\* the later mistral|mixtral rule apply; the earlier rule gave the initial.
C26_Witness ==
    /\ Len(anonNames) = 1
    /\ anonCalls[1] # {}
    /\ RuleApplies(5, anonNames[1])
    /\ RuleApplies(8, anonNames[1])
    /\ \A c \in anonCalls[1] : c.label = <<"B", "i", "o", "-", "C">>

\* The models that have a record in the list.
ModelsOf(list) == {list[i].model : i \in 1..Len(list)}

\* The scores the records of the model carry: all of them, or those of one
\* category.
ScoresOf(list, model) ==
    {<<i, j>> \in (1..Len(list)) \X (1..4) :
        list[i].model = model /\ j <= Len(list[i].ratings)}

ScoresIn(list, model, category) ==
    {p \in ScoresOf(list, model) : list[p[1]].ratings[p[2]].category = category}

RECURSIVE Total(_, _)
Total(list, places) ==
    IF places = {} THEN 0
    ELSE LET p == CHOOSE q \in places : TRUE
         IN list[p[1]].ratings[p[2]].score + Total(list, places \ {p})

\* num / den rounded to one decimal: the nearest tenth, the larger one when
\* two are equally near.
Rounded(num, den) ==
    LET n == CHOOSE t \in 0..50 : 2 * (10 * num - t * den) <= den
                                   /\ 2 * (10 * num - t * den) > -den
    IN [units |-> n \div 10, tenth |-> n % 10]

\* The overall mean of the model: over all the scores of all its categories.
OverallMean(list, model) ==
    Rounded(Total(list, ScoresOf(list, model)), Cardinality(ScoresOf(list, model)))

\* The categories whose mean a ranking entry shows, and the mean shown.
ShownCategories == {"affiliation", "research"}

ShownMean(entry, category) ==
    IF category = "affiliation" THEN entry.avgAffiliation ELSE entry.avgResearch

\* C21 (as stated): every render reports, for each model of the list, the
\* number of its records, the mean of each category rated for it and the
\* overall mean over all the categories rated for it, rounded to one decimal.
C21_CountMeansOverall ==
    \A r \in rendered : \A model \in ModelsOf(r.ratings) :
        \E i \in 1..Len(r.view.rankings) :
            LET entry == r.view.rankings[i]
                count == Cardinality({k \in 1..Len(r.ratings) : r.ratings[k].model = model})
            IN /\ entry.model = model
               /\ entry.count = count
               /\ \A category \in {"affiliation", "research", "gender", "supervision"} :
                     ScoresIn(r.ratings, model, category) # {}
                         => /\ category \in ShownCategories
                            /\ ShownMean(entry, category) =
                                  Rounded(Total(r.ratings,
                                                ScoresIn(r.ratings, model, category)),
                                          count)
               /\ entry.overall = OverallMean(r.ratings, model)

\* The place at which the model first appears in the list.
FirstAppearance(list, model) ==
    CHOOSE i \in 1..Len(list) :
        list[i].model = model /\ \A j \in 1..(i - 1) : list[j].model # model

\* The overall mean in tenths.
Tenths(fixed) == 10 * fixed.units + fixed.tenth

\* C22 (as stated): the ranking lists every rated model once, by descending
\* overall mean, models of equal overall mean in the order of their first
\* appearance in the list.
C22_RankedByOverallMean ==
    \A r \in rendered :
        LET ranking == r.view.rankings
        IN /\ Len(ranking) = Cardinality(ModelsOf(r.ratings))
           /\ {ranking[i].model : i \in 1..Len(ranking)} = ModelsOf(r.ratings)
           /\ \A i, j \in 1..Len(ranking) :
                 i < j =>
                    LET former == Tenths(OverallMean(r.ratings, ranking[i].model))
                        latter == Tenths(OverallMean(r.ratings, ranking[j].model))
                    IN /\ former >= latter
                       /\ former = latter
                             => FirstAppearance(r.ratings, ranking[i].model)
                                    < FirstAppearance(r.ratings, ranking[j].model)

\* The ranking entry of the model, <<>> when it has none.
EntryOf(view, model) ==
    SelectSeq(view.rankings, LAMBDA entry : entry.model = model)

\* The statistics of the technique, <<>> when it has none.
TechniqueOf(view, technique) ==
    IF technique \in DOMAIN view.techniques THEN <<view.techniques[technique]>> ELSE <<>>

\* C24: two renders of the same list show the same, and a render of the
\* list with one more rating differs from a render without it only in the
\* aggregates of the model and of the technique of that rating.
C24_RepeatableAndLocal ==
    \A a, b \in rendered :
        /\ a.ratings = b.ratings => a.view = b.view
        /\ (Len(b.ratings) = Len(a.ratings) + 1
               /\ SubSeq(b.ratings, 1, Len(a.ratings)) = a.ratings)
              => LET added == b.ratings[Len(b.ratings)]
                 IN /\ \A model \in {"x", "y"} \ {added.model} :
                          EntryOf(b.view, model) = EntryOf(a.view, model)
                    /\ \A technique \in {"zero-shot", "few-shot"} \ {added.technique} :
                          TechniqueOf(b.view, technique) = TechniqueOf(a.view, technique)

\* C24 witness: a list holding a rating of model x by few-shot prompting
\* was rendered, and so was the list with a zero-shot rating of model y
\* appended to it.
C24_Witness ==
    \E a, b \in rendered :
        /\ Len(b.ratings) = Len(a.ratings) + 1
        /\ SubSeq(b.ratings, 1, Len(a.ratings)) = a.ratings
        /\ b.ratings[Len(b.ratings)].model = "y"
        /\ b.ratings[Len(b.ratings)].technique = "zero-shot"
        /\ \E i \in 1..Len(a.ratings) :
              a.ratings[i].model = "x" /\ a.ratings[i].technique = "few-shot"

\* The ids of the ModelRatings of a list.
IdsOf(list) == {list[i].id : i \in 1..Len(list)}

\* C29: no two POSTs of saveRating for the same modelKey are awaiting the
\* backend response at the same time, so one completed rating set of a
\* model is posted at most once.
C29_OnePostPerRatingSet ==
    \A earlier, later \in ratingPosts :
        earlier.rating.model = later.rating.model => earlier = later

\* C23: Recent Activity shows at most RecentLimit records, from the latest
\* timestamp downwards, and no record left out is later than one shown.
\* Stated for lists in which every model has one record, where no record
\* stems from a second save of one rating set (C29).
C23_LatestFirst ==
    LET shown == RecentActivity(tabRatings)
    IN (\A i, j \in 1..Len(tabRatings) :
            tabRatings[i].model = tabRatings[j].model => i = j)
       => /\ Len(shown) <= RecentLimit
          /\ \A i, j \in 1..Len(shown) :
                i < j => shown[i].timestamp >= shown[j].timestamp
          /\ \A k \in 1..Len(tabRatings) :
                tabRatings[k].id \notin IdsOf(shown)
                   => \A i \in 1..Len(shown) :
                         shown[i].timestamp >= tabRatings[k].timestamp

\* C30: every ModelRating the backend stored and acknowledged is in the
\* 'ai-model-ratings' store, and in the ratings of AIComparisonTab while the
\* Biography tab is on screen.
C30_AcknowledgedKeptLocally ==
    LET savedRatings == localStorage["ai-model-ratings"]
    IN /\ storedRatings \subseteq
             (IF savedRatings # <<>> THEN IdsOf(savedRatings[1]) ELSE {})
       /\ activeTab = "ai-comparison" => storedRatings \subseteq IdsOf(tabRatings)

====
